---- MODULE Spec2Model ----
(***************************************************************************)
(* Membership core of ringpop-go's SWIM implementation (swim/member.go):   *)
(* state precedence, the override / accept decision functions, and the     *)
(* membership table they are applied to.                                   *)
(***************************************************************************)
EXTENDS Integers, FiniteSets, Sequences, TLC

VARIABLES members, last, pc, fn, args, ret, mem, pending

vars == <<members, last, pc, fn, args, ret, mem, pending>>

(***************************************************************************)
(* Bounds and value domains                                                *)
(***************************************************************************)

\* largest incarnation number drawn for a Member or a Change
MaxIncarnation == 1

Incarnations == 0..MaxIncarnation

\* member states (constants of swim/member.go)
Alive == "alive"
Suspect == "suspect"
Faulty == "faulty"
Leave == "leave"
Tombstone == "tombstone"

\* Status is an open string in the code: one value stands for every string
\* that is none of the five constants.
Unrecognized == "zombie"

\* a second status string that is none of the five constants
OtherUnrecognized == "ghost"

Statuses == {Alive, Suspect, Faulty, Leave, Tombstone}

StatusStrings == Statuses \cup {Unrecognized}

Addresses == {"a1", "a2"}

\* LabelMap: string -> string; the nil map and the empty map are both the
\* empty function.
NoLabels == [k \in {} |-> ""]

LabelMaps == {NoLabels, [k \in {"hello"} |-> "world"]}

\* a nil *Member
Nil == [nil |-> TRUE]

\* Member struct
Members ==
    [Address : Addresses, Status : StatusStrings,
     Incarnation : Incarnations, Labels : LabelMaps]

\* Change struct
Changes ==
    [Source : Addresses, SourceIncarnation : {0}, Address : Addresses,
     Incarnation : Incarnations, Status : StatusStrings,
     Tombstone : BOOLEAN, Labels : LabelMaps, Timestamp : {0}]

\* Member{} : the zero value of the struct
\* the Changes compared by overrides: Status is any string, so two Changes
\* can carry two different strings that are none of the five constants
ComparedChanges ==
    Changes \cup {[c EXCEPT !.Status = OtherUnrecognized] :
                    c \in {d \in Changes : d.Status = Unrecognized}}

ZeroMember ==
    [Address |-> "", Status |-> "", Incarnation |-> 0, Labels |-> NoLabels]

\* newChange of the tests: a Change with only the subject's address, status
\* and incarnation set
newChange(addr, status, incNum) ==
    [Source |-> "", SourceIncarnation |-> 0, Address |-> addr,
     Incarnation |-> incNum, Status |-> status, Tombstone |-> FALSE,
     Labels |-> NoLabels, Timestamp |-> 0]

(***************************************************************************)
(* The functions of swim/member.go                                         *)
(***************************************************************************)

\* statePrecedence with the ranks of Faulty and Leave exchanged
statePrecedenceLeaveBelowFaulty(s) ==
    CASE s = Alive -> 0
      [] s = Suspect -> 1
      [] s = Leave -> 2
      [] s = Faulty -> 3
      [] s = Tombstone -> 4
      [] OTHER -> -1

\* statePrecedence without the Tombstone case: it falls to the default
statePrecedenceNoTombstone(s) ==
    CASE s = Alive -> 0
      [] s = Suspect -> 1
      [] s = Faulty -> 2
      [] s = Leave -> 3
      [] OTHER -> -1

\* statePrecedence ranking an unknown state above every known one
statePrecedenceUnknownHighest(s) ==
    CASE s = Alive -> 0
      [] s = Suspect -> 1
      [] s = Faulty -> 2
      [] s = Leave -> 3
      [] s = Tombstone -> 4
      [] OTHER -> 5

statePrecedence(s) ==
    CASE s = Alive -> 0
      [] s = Suspect -> 1
      [] s = Faulty -> 2
      [] s = Leave -> 3
      [] s = Tombstone -> 4
      [] OTHER -> -1

populateFromChange(m, c) ==
    [m EXCEPT !.Address = c.Address,
              !.Incarnation = c.Incarnation,
              !.Status = c.Status,
              !.Labels = c.Labels]

\* acceptGossip without the first-seen Tombstone rejection
acceptGossipFirstSeenTombstone(old, gossip) ==
    IF old = Nil THEN TRUE
    ELSE IF gossip.Incarnation > old.Incarnation THEN TRUE
    ELSE IF gossip.Incarnation < old.Incarnation THEN FALSE
    ELSE IF statePrecedence(gossip.Status) > statePrecedence(old.Status) THEN TRUE
    ELSE FALSE

\* acceptGossip without the rejection of a lower incarnation
acceptGossipLowerIncarnation(old, gossip) ==
    IF gossip.Status = Tombstone /\ old = Nil THEN FALSE
    ELSE IF old = Nil THEN TRUE
    ELSE IF gossip.Incarnation > old.Incarnation THEN TRUE
    ELSE IF statePrecedence(gossip.Status) > statePrecedence(old.Status) THEN TRUE
    ELSE FALSE

\* acceptGossip comparing the precedences with >= instead of >
acceptGossipEqualPrecedence(old, gossip) ==
    IF gossip.Status = Tombstone /\ old = Nil THEN FALSE
    ELSE IF old = Nil THEN TRUE
    ELSE IF gossip.Incarnation > old.Incarnation THEN TRUE
    ELSE IF gossip.Incarnation < old.Incarnation THEN FALSE
    ELSE IF statePrecedence(gossip.Status) >= statePrecedence(old.Status) THEN TRUE
    ELSE FALSE

acceptGossip(old, gossip) ==
    IF gossip.Status = Tombstone /\ old = Nil THEN FALSE
    ELSE IF old = Nil THEN TRUE
    ELSE IF gossip.Incarnation > old.Incarnation THEN TRUE
    ELSE IF gossip.Incarnation < old.Incarnation THEN FALSE
    ELSE IF statePrecedence(gossip.Status) > statePrecedence(old.Status) THEN TRUE
    ELSE FALSE

\* nonLocalOverride comparing the precedences with >= instead of >
nonLocalOverrideEqualPrecedence(m, change) ==
    IF change.Address # m.Address THEN FALSE
    ELSE IF change.Incarnation > m.Incarnation THEN TRUE
    ELSE IF change.Incarnation < m.Incarnation THEN FALSE
    ELSE statePrecedence(change.Status) >= statePrecedence(m.Status)

\* nonLocalOverride without the same-address rule
nonLocalOverrideAnyAddress(m, change) ==
    IF change.Incarnation > m.Incarnation THEN TRUE
    ELSE IF change.Incarnation < m.Incarnation THEN FALSE
    ELSE statePrecedence(change.Status) > statePrecedence(m.Status)

nonLocalOverride(m, change) ==
    IF change.Address # m.Address THEN FALSE
    ELSE IF change.Incarnation > m.Incarnation THEN TRUE
    ELSE IF change.Incarnation < m.Incarnation THEN FALSE
    ELSE statePrecedence(change.Status) > statePrecedence(m.Status)

\* validateIncoming rewriting every Faulty change, whatever its Tombstone flag
validateIncomingAnyFaulty(c) ==
    IF c.Status = Faulty
        THEN [c EXCEPT !.Status = Tombstone]
        ELSE c

\* validateIncoming clearing the Tombstone flag of the change it rewrites
validateIncomingClearsFlag(c) ==
    IF c.Status = Faulty /\ c.Tombstone
        THEN [c EXCEPT !.Status = Tombstone, !.Tombstone = FALSE]
        ELSE c

validateIncoming(c) ==
    IF c.Status = Faulty /\ c.Tombstone
        THEN [c EXCEPT !.Status = Tombstone]
        ELSE c

\* validateOutgoing rewriting the Status without setting the Tombstone flag
validateOutgoingWithoutFlag(c) ==
    IF c.Status = Tombstone
        THEN [c EXCEPT !.Status = Faulty]
        ELSE c

validateOutgoing(c) ==
    IF c.Status = Tombstone
        THEN [c EXCEPT !.Status = Faulty, !.Tombstone = TRUE]
        ELSE c

\* localOverride rejecting an equal incarnation as well as a lower one
localOverrideStrictIncarnation(m, local, change) ==
    IF m.Address # local THEN FALSE
    ELSE IF change.Incarnation <= m.Incarnation THEN FALSE
    ELSE change.Status = Faulty \/ change.Status = Suspect
            \/ change.Status = Tombstone

localOverride(m, local, change) ==
    IF m.Address # local THEN FALSE
    ELSE IF change.Incarnation < m.Incarnation THEN FALSE
    ELSE change.Status = Faulty \/ change.Status = Suspect
            \/ change.Status = Tombstone

\* overrides looking at the state precedence before the incarnation
overridesPrecedenceFirst(c, c2) ==
    IF statePrecedence(c.Status) > statePrecedence(c2.Status) THEN TRUE
    ELSE IF statePrecedence(c.Status) < statePrecedence(c2.Status) THEN FALSE
    ELSE c.Incarnation > c2.Incarnation

\* overrides comparing the precedences with >= instead of >
overridesEqualPrecedence(c, c2) ==
    IF c.Incarnation > c2.Incarnation THEN TRUE
    ELSE IF c.Incarnation < c2.Incarnation THEN FALSE
    ELSE statePrecedence(c.Status) >= statePrecedence(c2.Status)

overrides(c, c2) ==
    IF c.Incarnation > c2.Incarnation THEN TRUE
    ELSE IF c.Incarnation < c2.Incarnation THEN FALSE
    ELSE statePrecedence(c.Status) > statePrecedence(c2.Status)

(***************************************************************************)
(* The label checksum and the checksum string                              *)
(***************************************************************************)

\* most labels set on one Member
MaxLabels == 3

\* the labels a Member is given: those of the tests, and two whose
\* "/key/value" strings have the same 32-bit fingerprint
LabelPairs ==
    {[key |-> "hello", value |-> "world"], [key |-> "foo", value |-> "bar"],
     [key |-> "bhib", value |-> "1"], [key |-> "bqsf", value |-> "1"]}

\* the keys in the order sort.Strings puts them
SortedKeys == <<"bhib", "bqsf", "foo", "hello">>

\* every order in which the elements of S can be visited
Orders(S) ==
    {s \in [1..Cardinality(S) -> S] :
        \A i, j \in 1..Cardinality(S) : i # j => s[i] # s[j]}

\* the orders in which at most MaxLabels labels are set on a Member
Insertions ==
    UNION {Orders(P) : P \in {Q \in SUBSET LabelPairs : Cardinality(Q) <= MaxLabels}}

\* l[key] = value
setLabel(l, key, value) ==
    [k \in DOMAIN l \cup {key} |-> IF k = key THEN value ELSE l[k]]

\* the LabelMap after the insertions ins, made in that order
RECURSIVE LabelMapOf(_)
LabelMapOf(ins) ==
    IF ins = <<>> THEN NoLabels
    ELSE LET n == Len(ins)
         IN  setLabel(LabelMapOf(SubSeq(ins, 1, n - 1)), ins[n].key, ins[n].value)

\* a uint32 is kept as its two 16-bit halves
Uint32(hi, lo) == [hi |-> hi, lo |-> lo]

\* a ^ b on n-bit operands
RECURSIVE xorBits(_, _, _)
xorBits(a, b, n) ==
    IF n = 0 THEN 0
    ELSE ((a + b) % 2) + 2 * xorBits(a \div 2, b \div 2, n - 1)

xor32(x, y) == Uint32(xorBits(x.hi, y.hi, 16), xorBits(x.lo, y.lo, 16))

\* farm.Fingerprint32 on the label strings of the model
Fingerprint32(s) ==
    CASE s = "/hello/world" -> Uint32(24616, 16352)
      [] s = "/foo/bar" -> Uint32(50893, 61138)
      [] s = "/bhib/1" -> Uint32(63081, 38453)
      [] s = "/bqsf/1" -> Uint32(63081, 38453)

\* int32(checksum>>1)<<1 | int32(checksum&uint32(1)), the shift wrapping in
\* 32 bits
toSigned(checksum) ==
    LET shifted == (checksum.hi * 32768) + (checksum.lo \div 2)
        wrapped == IF shifted >= 1073741824
                     THEN ((shifted - 1073741824) * 2 - 2147483647) - 1
                     ELSE shifted * 2
    IN  wrapped + (checksum.lo % 2)

\* the loop of LabelMap.checksum, the map being ranged over in the order keys
RECURSIVE checksumLoop(_, _, _)
checksumLoop(l, keys, checksum) ==
    IF keys = <<>> THEN checksum
    ELSE LET key == Head(keys)
             lb == "/" \o key \o "/" \o l[key]
         IN  checksumLoop(l, Tail(keys), xor32(checksum, Fingerprint32(lb)))

\* LabelMap.checksum assigning each fingerprint instead of folding it in
RECURSIVE checksumAssignLoop(_, _, _)
checksumAssignLoop(l, keys, checksum) ==
    IF keys = <<>> THEN checksum
    ELSE LET key == Head(keys)
             lb == "/" \o key \o "/" \o l[key]
         IN  checksumAssignLoop(l, Tail(keys), Fingerprint32(lb))

checksumAssign(l, keys) == toSigned(checksumAssignLoop(l, keys, Uint32(0, 0)))

\* LabelMap.checksum; keys is the order in which the map is ranged over
checksum(l, keys) == toSigned(checksumLoop(l, keys, Uint32(0, 0)))

\* LabelMap.checksumString leaving the suffix out only when no label is set
labelsChecksumStringByLength(l, keys) ==
    IF DOMAIN l = {} THEN ""
    ELSE "#labels" \o ToString(checksum(l, keys))

\* LabelMap.checksumString: what it appends to the buffer
labelsChecksumString(l, keys) ==
    LET sum == checksum(l, keys)
    IN  IF sum = 0 THEN ""
        ELSE "#labels" \o ToString(sum)

\* Member.checksumString: what it appends to the buffer
checksumString(m, keys) ==
    m.Address \o m.Status \o ToString(m.Incarnation)
        \o labelsChecksumString(m.Labels, keys)

\* sort.Strings(keys)
sortStrings(keys) ==
    LET present == {keys[i] : i \in DOMAIN keys}
    IN  SelectSeq(SortedKeys, LAMBDA k : k \in present)

RECURSIVE writeLabels(_, _)
writeLabels(l, keys) ==
    IF keys = <<>> THEN ""
    ELSE "-" \o Head(keys) \o "-" \o l[Head(keys)] \o writeLabels(l, Tail(keys))

\* LabelMap.checksumString of the revision that writes the sorted labels
sortedChecksumString(l, keys) ==
    IF Len(keys) > 0 THEN writeLabels(l, sortStrings(keys)) ELSE ""

(***************************************************************************)
(* shuffle                                                                 *)
(***************************************************************************)

\* longest slice handed to shuffle
MaxMembers == 3

\* the *Member values a slice holds; one Member may be in it more than once
MemberPointers == {"m1", "m2", "m3"}

\* the zero value of a slot of make([]*Member, n)
NilPointer == "nil"

MemberSlices == UNION {[1..n -> MemberPointers] : n \in 0..MaxMembers}

\* rand.Perm(n): some permutation of the n indexes (counted from 1 here)
Perm(n) == Orders(1..n)

\* for o, n := range newIndexes { newMembers[n] = members[o] }, from index o on
RECURSIVE shuffleLoop(_, _, _, _)
shuffleLoop(input, newIndexes, o, newMembers) ==
    IF o > Len(newIndexes) THEN newMembers
    ELSE shuffleLoop(input, newIndexes, o + 1,
                     [newMembers EXCEPT ![newIndexes[o]] = input[o]])

\* shuffle with a loop that misses the first index
shuffleFromSecond(input, newIndexes) ==
    shuffleLoop(input, newIndexes, 2, [i \in 1..Len(input) |-> NilPointer])

\* shuffle, newIndexes being what rand.Perm(len(members)) returned
shuffle(input, newIndexes) ==
    shuffleLoop(input, newIndexes, 1, [i \in 1..Len(input) |-> NilPointer])

(***************************************************************************)
(* Serialization of a Change with encoding/json, driven by the struct tags. *)
(***************************************************************************)

\* the fields of Change in declaration order: Go name, JSON key, Go kind and
\* whether the tag carries omitempty
ChangeFields ==
    << [name |-> "Source", key |-> "source", kind |-> "string", omitempty |-> FALSE],
       [name |-> "SourceIncarnation", key |-> "sourceIncarnationNumber",
        kind |-> "int", omitempty |-> FALSE],
       [name |-> "Address", key |-> "address", kind |-> "string", omitempty |-> FALSE],
       [name |-> "Incarnation", key |-> "incarnationNumber",
        kind |-> "int", omitempty |-> FALSE],
       [name |-> "Status", key |-> "status", kind |-> "string", omitempty |-> FALSE],
       [name |-> "Tombstone", key |-> "tombstone", kind |-> "bool", omitempty |-> TRUE],
       [name |-> "Labels", key |-> "labels", kind |-> "map", omitempty |-> TRUE],
       [name |-> "Timestamp", key |-> "timestamp", kind |-> "int", omitempty |-> FALSE] >>

\* encoding/json: false, and a map without entries, are empty values
isEmptyValue(kind, v) ==
    CASE kind = "bool" -> v = FALSE
      [] kind = "map" -> DOMAIN v = {}
      [] kind = "int" -> v = 0
      [] kind = "string" -> v = ""

quote(s) == "\"" \o s \o "\""

\* the JSON text of a value; an object is kept as its keys and their texts
encode(kind, v) ==
    CASE kind = "bool" -> IF v THEN "true" ELSE "false"
      [] kind = "int" -> ToString(v)
      [] kind = "string" -> quote(v)
      [] kind = "map" -> [k \in DOMAIN v |-> quote(v[k])]

\* json.Marshal that ignores omitempty
MarshalEveryField(c) ==
    LET written == {i \in DOMAIN ChangeFields : TRUE}
    IN  [key \in {ChangeFields[i].key : i \in written} |->
            LET f == ChangeFields[CHOOSE i \in written : ChangeFields[i].key = key]
            IN  encode(f.kind, c[f.name])]

\* json.Marshal(&change): the object's keys and the text of their values
Marshal(c) ==
    LET written == {i \in DOMAIN ChangeFields :
                        ~(/\ ChangeFields[i].omitempty
                          /\ isEmptyValue(ChangeFields[i].kind,
                                          c[ChangeFields[i].name]))}
    IN  [key \in {ChangeFields[i].key : i \in written} |->
            LET f == ChangeFields[CHOOSE i \in written : ChangeFields[i].key = key]
            IN  encode(f.kind, c[f.name])]

(***************************************************************************)
(* The membership table: address -> stored Member, fed with Changes        *)
(***************************************************************************)

\* the Changes the network layer hands to the table: any address, status and
\* incarnation, the other fields left unset as in newChange
DeliveredChanges ==
    {newChange(a, s, i) :
        a \in Addresses, s \in StatusStrings, i \in Incarnations}

NoDelivery == [op |-> "none"]

\* no Member and Change are being converted
NoMemory == [phase |-> "none"]

TableIdle == pc = "table" /\ fn = "" /\ args = <<>> /\ ret = FALSE

Init ==
    /\ members = [a \in Addresses |-> Nil]
    /\ last = NoDelivery
    /\ TableIdle
    /\ mem = NoMemory
    /\ pending = {}

\* A Change arrives as gossip: it is turned into a Member view, judged by
\* acceptGossip against the record stored for its address (nil when there is
\* none) and stored when accepted.
\* A gossip taken from a finite set of pending gossips leaves the set.
DeliverGossip(c) ==
    LET old == members[c.Address]
        gossip == populateFromChange(ZeroMember, c)
        accepted == acceptGossip(old, gossip)
    IN  /\ pc = "table"
        /\ members' = IF accepted
                        THEN [members EXCEPT ![c.Address] = gossip]
                        ELSE members
        /\ last' = [op |-> "gossip", slot |-> c.Address, change |-> c,
                    old |-> old, accepted |-> accepted]
        /\ pending' = pending \ {c}
        /\ UNCHANGED <<pc, fn, args, ret, mem>>

\* A Change is offered to an existing Member: nonLocalOverride judges it and
\* populateFromChange writes it into the Member when it overrides.
DeliverChange(a, c) ==
    LET m == members[a]
        accepted == nonLocalOverride(m, c)
    IN  /\ pc = "table"
        /\ m # Nil
        /\ members' = IF accepted
                        THEN [members EXCEPT ![a] = populateFromChange(m, c)]
                        ELSE members
        /\ last' = [op |-> "change", slot |-> a, change |-> c,
                    old |-> m, accepted |-> accepted]
        /\ UNCHANGED <<pc, fn, args, ret, mem, pending>>

Next ==
    \/ \E c \in DeliveredChanges : DeliverGossip(c)
    \/ \E a \in Addresses, c \in DeliveredChanges : DeliverChange(a, c)

Spec == Init /\ [][Next]_vars

(***************************************************************************)
(* The decision functions called on arbitrary arguments                    *)
(***************************************************************************)

InitCall ==
    /\ members = [a \in Addresses |-> Nil]
    /\ last = NoDelivery
    /\ pc = "call"
    /\ ret = FALSE
    /\ mem = NoMemory
    /\ pending = {}
    /\ \/ fn = "overrides" /\ args \in [c : ComparedChanges, c2 : ComparedChanges]
       \/ fn = "acceptGossip"
            /\ args \in [old : Members \cup {Nil}, gossip : Members]
       \/ fn = "nonLocalOverride" /\ args \in [m : Members, change : Changes]
       \/ fn = "localOverride"
            /\ args \in [m : Members, local : Addresses, change : Changes]
       \/ fn \in {"validateIncoming", "validateOutgoing", "receiveAndSend",
                   "sendAndReceive"}
            /\ args \in [c : Changes]
       \/ fn = "Marshal" /\ args \in [c : Changes]
       \/ fn = "shuffle" /\ args \in [members : MemberSlices]
       \/ fn = "checksum" /\ args \in [labels : Insertions]
       \/ fn = "checksumString"
            /\ args \in [address : Addresses, status : StatusStrings,
                          incarnation : Incarnations, labels : Insertions]

Return(value) ==
    /\ ret' = value
    /\ pc' = "done"
    /\ UNCHANGED <<members, last, fn, args, mem, pending>>

CallOverrides ==
    /\ pc = "call" /\ fn = "overrides"
    /\ Return(overrides(args.c, args.c2))

CallAcceptGossip ==
    /\ pc = "call" /\ fn = "acceptGossip"
    /\ Return(acceptGossip(args.old, args.gossip))

CallNonLocalOverride ==
    /\ pc = "call" /\ fn = "nonLocalOverride"
    /\ Return(nonLocalOverride(args.m, args.change))

CallLocalOverride ==
    /\ pc = "call" /\ fn = "localOverride"
    /\ Return(localOverride(args.m, args.local, args.change))

\* the receiver is passed by value: the caller's Change stays as it is
CallValidateIncoming ==
    /\ pc = "call" /\ fn = "validateIncoming"
    /\ Return(validateIncoming(args.c))

CallValidateOutgoing ==
    /\ pc = "call" /\ fn = "validateOutgoing"
    /\ Return(validateOutgoing(args.c))

\* a wire hop: validateOutgoing at the sender, validateIncoming at the
\* receiver
CallSendAndReceive ==
    /\ pc = "call" /\ fn = "sendAndReceive"
    /\ Return(validateIncoming(validateOutgoing(args.c)))

\* json.Marshal of a Change; ret is the object written, key by key
CallMarshal ==
    /\ pc = "call" /\ fn = "Marshal"
    /\ Return(Marshal(args.c))

\* a Change taken from the wire and put back on it: validateIncoming on the
\* way in, validateOutgoing on the way out
CallReceiveAndSend ==
    /\ pc = "call" /\ fn = "receiveAndSend"
    /\ Return(validateOutgoing(validateIncoming(args.c)))

\* the order in which Go ranges over the map is any order of its keys
CallChecksum ==
    /\ pc = "call" /\ fn = "checksum"
    /\ LET l == LabelMapOf(args.labels)
       IN  \E keys \in Orders(DOMAIN l) :
                Return([keys |-> keys, labels |-> l, sum |-> checksum(l, keys)])

CallChecksumString ==
    /\ pc = "call" /\ fn = "checksumString"
    /\ LET l == LabelMapOf(args.labels)
           m == [Address |-> args.address, Status |-> args.status,
                 Incarnation |-> args.incarnation, Labels |-> l]
       IN  \E keys \in Orders(DOMAIN l) :
                Return([keys |-> keys, m |-> m, b |-> checksumString(m, keys)])

\* shuffle writes into the slice it has made and never into members
CallShuffle ==
    /\ pc = "call" /\ fn = "shuffle"
    /\ \E newIndexes \in Perm(Len(args.members)) :
            Return([newIndexes |-> newIndexes,
                    newMembers |-> shuffle(args.members, newIndexes)])

NextCall ==
    \/ CallOverrides
    \/ CallAcceptGossip
    \/ CallNonLocalOverride
    \/ CallLocalOverride
    \/ CallValidateIncoming
    \/ CallValidateOutgoing
    \/ CallReceiveAndSend
    \/ CallChecksum
    \/ CallChecksumString
    \/ CallShuffle
    \/ CallMarshal
    \/ CallSendAndReceive

SpecCall == InitCall /\ [][NextCall]_vars

Returned(f) == pc = "done" /\ fn = f

(***************************************************************************)
(* Properties                                                              *)
(***************************************************************************)

\* the precedence order as the documentation lists it
ListedRank ==
    [s \in Statuses |->
        IF s = Alive THEN 0 ELSE IF s = Suspect THEN 1 ELSE IF s = Faulty THEN 2
        ELSE IF s = Leave THEN 3 ELSE 4]

\* C1: a Change with the higher incarnation overrides one with a lower
\* incarnation, and is not overridden by it, whatever the two statuses are.
C1_HigherIncarnationOverrides ==
    Returned("overrides") =>
        /\ args.c.Incarnation > args.c2.Incarnation => ret = TRUE
        /\ args.c.Incarnation < args.c2.Incarnation => ret = FALSE

C1_Witness ==
    /\ Returned("overrides")
    /\ args.c.Incarnation > args.c2.Incarnation
    /\ args.c.Status = Unrecognized
    /\ args.c2.Status = Tombstone
    /\ ret = TRUE

\* C2: at equal incarnations c overrides c2 exactly when the state precedence
\* of c's status is greater, the recognized statuses being ranked
\* Alive=0 < Suspect=1 < Faulty=2 < Leave=3 < Tombstone=4.
C2_EqualIncarnationByPrecedence ==
    (Returned("overrides") /\ args.c.Incarnation = args.c2.Incarnation) =>
        /\ ret = (statePrecedence(args.c.Status) > statePrecedence(args.c2.Status))
        /\ (args.c.Status \in Statuses /\ args.c2.Status \in Statuses) =>
                ret = (ListedRank[args.c.Status] > ListedRank[args.c2.Status])

C2_Witness ==
    /\ Returned("overrides")
    /\ args.c.Incarnation = args.c2.Incarnation
    /\ args.c.Status = Leave
    /\ args.c2.Status = Faulty
    /\ ret = TRUE

\* C3: with no prior record, acceptGossip rejects a Tombstone and accepts every
\* other status, whatever the incarnation.
C3_FirstSeenGossip ==
    (Returned("acceptGossip") /\ args.old = Nil) =>
        ret = (args.gossip.Status # Tombstone)

C3_Witness ==
    /\ Returned("acceptGossip")
    /\ args.old = Nil
    /\ args.gossip.Status = Tombstone
    /\ ret = FALSE

\* C4: with a prior record, acceptGossip is true exactly when the gossip has a
\* higher incarnation, or the same incarnation and a status of greater
\* precedence; a lower incarnation is always rejected.
C4_AcceptGossipRule ==
    (Returned("acceptGossip") /\ args.old # Nil) =>
        /\ ret = (\/ args.gossip.Incarnation > args.old.Incarnation
                  \/ /\ args.gossip.Incarnation = args.old.Incarnation
                     /\ statePrecedence(args.gossip.Status)
                            > statePrecedence(args.old.Status))
        /\ args.gossip.Incarnation < args.old.Incarnation => ret = FALSE

C4_Witness ==
    /\ Returned("acceptGossip")
    /\ args.old # Nil
    /\ args.gossip.Incarnation < args.old.Incarnation
    /\ args.gossip.Status = Tombstone
    /\ args.old.Status = Alive
    /\ ret = FALSE

\* C8: for the local member, localOverride is true exactly when the change's
\* status is Suspect, Faulty or Tombstone and its incarnation is not lower
\* than the member's.
C8_LocalOverrideRule ==
    (Returned("localOverride") /\ args.m.Address = args.local) =>
        ret = (/\ args.change.Status \in {Suspect, Faulty, Tombstone}
               /\ args.change.Incarnation >= args.m.Incarnation)

C8_Witness ==
    /\ Returned("localOverride")
    /\ args.m.Address = args.local
    /\ args.change.Status = Suspect
    /\ args.change.Incarnation = args.m.Incarnation
    /\ ret = TRUE

\* C9: localOverride is false for every change that is not about the local
\* address.
C9_LocalOverrideOnlyLocalChange ==
    (Returned("localOverride") /\ args.change.Address # args.local) =>
        ret = FALSE

\* C10: nonLocalOverride is true exactly when the change is about the member's
\* address and has a higher incarnation, or the same incarnation and a status
\* of greater precedence.
C10_NonLocalOverrideRule ==
    Returned("nonLocalOverride") =>
        ret = (/\ args.change.Address = args.m.Address
               /\ \/ args.change.Incarnation > args.m.Incarnation
                  \/ /\ args.change.Incarnation = args.m.Incarnation
                     /\ statePrecedence(args.change.Status)
                            > statePrecedence(args.m.Status))

C10_Witness ==
    /\ Returned("nonLocalOverride")
    /\ args.change.Address # args.m.Address
    /\ args.change.Incarnation > args.m.Incarnation
    /\ ret = FALSE

\* a delivery has been made to a slot that held a Member
DeliveredToExisting == last.op # "none" /\ last.old # Nil

\* C5: across deliveries that store a Change only when acceptGossip or
\* nonLocalOverride accepts it, the stored Member's Incarnation never
\* decreases.
C5_IncarnationNeverDecreases ==
    DeliveredToExisting =>
        /\ members[last.slot] # Nil
        /\ members[last.slot].Incarnation >= last.old.Incarnation

C5_Witness ==
    /\ DeliveredToExisting
    /\ last.change.Address = last.slot
    /\ last.change.Incarnation < last.old.Incarnation
    /\ statePrecedence(last.change.Status) > statePrecedence(last.old.Status)
    /\ ~last.accepted
    /\ members[last.slot] = last.old

\* C6: an accepted update that keeps the Incarnation strictly raises the state
\* precedence of the Status; the Status moves to a lower or equal precedence
\* only in an update of strictly higher incarnation.
C6_StatusFollowsPrecedence ==
    (DeliveredToExisting /\ last.accepted) =>
        /\ members[last.slot].Incarnation = last.old.Incarnation =>
                statePrecedence(members[last.slot].Status)
                    > statePrecedence(last.old.Status)
        /\ statePrecedence(members[last.slot].Status)
                <= statePrecedence(last.old.Status) =>
                /\ last.change.Incarnation > last.old.Incarnation
                /\ members[last.slot].Incarnation > last.old.Incarnation

C6_Witness ==
    /\ DeliveredToExisting
    /\ last.accepted
    /\ last.old.Status = Suspect
    /\ members[last.slot].Status = Alive
    /\ members[last.slot].Incarnation > last.old.Incarnation

\* C7: once the stored Member is a Tombstone at incarnation i, a delivery of
\* incarnation <= i is not accepted and leaves the record as it is; the
\* Status leaves Tombstone only through a delivery of incarnation > i.
C7_TombstoneAbsorbing ==
    (DeliveredToExisting /\ last.old.Status = Tombstone) =>
        /\ last.change.Incarnation <= last.old.Incarnation =>
                ~last.accepted /\ members[last.slot] = last.old
        /\ members[last.slot].Status # Tombstone =>
                last.change.Incarnation > last.old.Incarnation

C7_Witness ==
    /\ DeliveredToExisting
    /\ last.old.Status = Tombstone
    /\ last.change.Address = last.slot
    /\ last.change.Incarnation = last.old.Incarnation
    /\ last.change.Status = Leave
    /\ ~last.accepted
    /\ members[last.slot] = last.old

\* C11 (as stated): a Change or gossip with an unrecognized status never wins
\* against a Change or stored Member about the same subject, in overrides,
\* acceptGossip and nonLocalOverride alike.
C11_UnrecognizedNeverWins ==
    /\ (/\ Returned("overrides")
        /\ args.c.Status \notin Statuses
        /\ args.c.Address = args.c2.Address) => ret = FALSE
    /\ (/\ Returned("acceptGossip")
        /\ args.old # Nil
        /\ args.gossip.Status \notin Statuses
        /\ args.gossip.Address = args.old.Address) => ret = FALSE
    /\ (/\ Returned("nonLocalOverride")
        /\ args.change.Status \notin Statuses
        /\ args.change.Address = args.m.Address) => ret = FALSE

\* C11 (amended): an unrecognized status has precedence -1 and never wins
\* against a Change or stored Member of the same or a higher incarnation.
C11_UnrecognizedNeverWinsAtSameIncarnation ==
    /\ (/\ Returned("overrides")
        /\ args.c.Status \notin Statuses
        /\ args.c.Incarnation <= args.c2.Incarnation) =>
            statePrecedence(args.c.Status) = -1 /\ ret = FALSE
    /\ (/\ Returned("acceptGossip")
        /\ args.old # Nil
        /\ args.gossip.Status \notin Statuses
        /\ args.gossip.Incarnation <= args.old.Incarnation) =>
            statePrecedence(args.gossip.Status) = -1 /\ ret = FALSE
    /\ (/\ Returned("nonLocalOverride")
        /\ args.change.Status \notin Statuses
        /\ args.change.Incarnation <= args.m.Incarnation) =>
            statePrecedence(args.change.Status) = -1 /\ ret = FALSE

C11_Witness ==
    /\ Returned("acceptGossip")
    /\ args.old # Nil
    /\ args.gossip.Status = Unrecognized
    /\ args.gossip.Address = args.old.Address
    /\ args.gossip.Incarnation = args.old.Incarnation
    /\ args.old.Status = Alive
    /\ ret = FALSE

\* the fields of a Change other than Status
ChangeFieldsButStatus ==
    {"Source", "SourceIncarnation", "Address", "Incarnation", "Tombstone",
     "Labels", "Timestamp"}

\* C12 (as stated): validateOutgoing(validateIncoming(c)) = c for every Change
\* whose Status is Faulty or Tombstone, with either value of the Tombstone flag.
C12_RoundTripFaultyOrTombstone ==
    (Returned("receiveAndSend") /\ args.c.Status \in {Faulty, Tombstone}) =>
        ret = args.c

\* C12 (amended): the round trip gives c back when c.Status is Faulty, with
\* either value of the flag; a Change whose Status is Tombstone comes back as
\* Faulty with the Tombstone flag set.
C12_RoundTripFaulty ==
    Returned("receiveAndSend") =>
        /\ args.c.Status = Faulty => ret = args.c
        /\ args.c.Status = Tombstone =>
                ret = [args.c EXCEPT !.Status = Faulty, !.Tombstone = TRUE]

C12_Witness ==
    /\ Returned("receiveAndSend")
    /\ args.c.Status = Faulty
    /\ args.c.Tombstone = TRUE
    /\ ret = args.c

\* C13: validateIncoming returns Status Tombstone for a Faulty change with the
\* Tombstone flag and the input's Status otherwise; every other field is the
\* input's, and the call leaves the caller's Change as it was.
C13_ValidateIncoming ==
    /\ [](Returned("validateIncoming") =>
            /\ ret.Status = IF args.c.Status = Faulty /\ args.c.Tombstone = TRUE
                              THEN Tombstone
                              ELSE args.c.Status
            /\ \A f \in ChangeFieldsButStatus : ret[f] = args.c[f])
    /\ [][fn = "validateIncoming" => args' = args]_vars

C13_Witness ==
    /\ Returned("validateIncoming")
    /\ args.c.Status = Faulty
    /\ args.c.Tombstone = TRUE
    /\ args.c.Labels # NoLabels
    /\ ret.Status = Tombstone
    /\ ret.Tombstone = TRUE

\* C14: validateOutgoing never returns Status Tombstone: a Tombstone comes back
\* as Faulty with the Tombstone flag set, every other Change unchanged, and
\* the fields other than Status and Tombstone are always the input's.
C14_ValidateOutgoing ==
    Returned("validateOutgoing") =>
        /\ ret.Status # Tombstone
        /\ args.c.Status = Tombstone =>
                ret.Status = Faulty /\ ret.Tombstone = TRUE
        /\ args.c.Status # Tombstone => ret = args.c
        /\ \A f \in ChangeFieldsButStatus \ {"Tombstone"} : ret[f] = args.c[f]

C14_Witness ==
    /\ Returned("validateOutgoing")
    /\ args.c.Status = Tombstone
    /\ args.c.Tombstone = FALSE
    /\ ret.Status = Faulty
    /\ ret.Tombstone = TRUE

\* the labels of the checksum call, set in any order
SameLabelsAnyInsertion == Orders({args.labels[i] : i \in DOMAIN args.labels})

\* C15: the label checksum, and the label part of the checksum string, are the
\* same for every order in which the labels are set and every order in which
\* the map is ranged over: the call returns what it returns for the same labels
\* set in any other order, and for its own map ranged over in any other order.
C15_ChecksumOrderIndependent ==
    Returned("checksum") =>
        LET str == labelsChecksumString(ret.labels, ret.keys)
            sorted == sortedChecksumString(ret.labels, ret.keys)
        IN  /\ \A ins \in SameLabelsAnyInsertion :
                /\ LabelMapOf(ins) = ret.labels
                /\ checksum(LabelMapOf(ins), ret.keys) = ret.sum
                /\ labelsChecksumString(LabelMapOf(ins), ret.keys) = str
                /\ sortedChecksumString(LabelMapOf(ins), ret.keys) = sorted
            /\ \A keys \in Orders(DOMAIN ret.labels) :
                /\ checksum(ret.labels, keys) = ret.sum
                /\ labelsChecksumString(ret.labels, keys) = str
                /\ sortedChecksumString(ret.labels, keys) = sorted

C15_Witness ==
    /\ Returned("checksum")
    /\ Len(args.labels) = 2
    /\ ret.keys # [i \in DOMAIN args.labels |-> args.labels[i].key]
    /\ ret.sum # 0
    /\ ret.sum = checksum(ret.labels, [i \in DOMAIN args.labels |-> args.labels[i].key])

\* C16: Member.checksumString writes Address, Status and Incarnation and
\* nothing more when the label checksum is 0, as for a Member without labels;
\* otherwise it writes "#labels" and the signed decimal checksum after them.
C16_ChecksumStringSuffix ==
    Returned("checksumString") =>
        LET sum == checksum(ret.m.Labels, ret.keys)
            prefix == ret.m.Address \o ret.m.Status \o ToString(ret.m.Incarnation)
        IN  /\ sum = 0 =>
                /\ ret.b = prefix
                /\ ret.b = checksumString([ret.m EXCEPT !.Labels = NoLabels], <<>>)
            /\ sum # 0 => ret.b = prefix \o "#labels" \o ToString(sum)

C16_Witness ==
    /\ Returned("checksumString")
    /\ DOMAIN ret.m.Labels = {"bhib", "bqsf"}
    /\ checksum(ret.m.Labels, ret.keys) = 0
    /\ ret.b = ret.m.Address \o ret.m.Status \o ToString(ret.m.Incarnation)

\* how often x is in the slice s
Occurrences(s, x) == Cardinality({i \in DOMAIN s : s[i] = x})

\* C17: shuffle returns a slice of the input's length that holds every element
\* as often as the input does and has no slot left unset, and the input slice
\* is as it was.
C17_ShufflePermutes ==
    /\ [](Returned("shuffle") =>
            /\ Len(ret.newMembers) = Len(args.members)
            /\ \A x \in MemberPointers \cup {NilPointer} :
                    Occurrences(ret.newMembers, x) = Occurrences(args.members, x)
            /\ \A i \in DOMAIN ret.newMembers : ret.newMembers[i] # NilPointer)
    /\ [][fn = "shuffle" => args' = args]_vars

C17_Witness ==
    /\ Returned("shuffle")
    /\ Len(args.members) = 3
    /\ args.members[1] = args.members[2]
    /\ args.members[1] # args.members[3]
    /\ ret.newMembers # args.members
    /\ ret.newMembers[1] = args.members[3]

(***************************************************************************)
(* A Member and a Change in memory: their Labels fields are references to  *)
(* map objects                                                             *)
(***************************************************************************)

\* the map objects
MapRefs == {"map1", "map2"}

\* the nil map
NilMap == "nilmap"

\* what a map object can hold
MapContents ==
    {NoLabels, [k \in {"hello"} |-> "world"], [k \in {"hello"} |-> "there"]}

\* the fields populateSubject and populateFromChange copy
SubjectFields ==
    [Address : Addresses, Status : {Alive, Suspect}, Incarnation : Incarnations]

WithLabels(subject, ref) ==
    [Address |-> subject.Address, Status |-> subject.Status,
     Incarnation |-> subject.Incarnation, Labels |-> ref]

\* the label set seen through the Labels field of x
LabelsOf(x) == IF x.Labels = NilMap THEN NoLabels ELSE mem.maps[x.Labels]

InitMemory ==
    /\ members = [a \in Addresses |-> Nil]
    /\ last = NoDelivery
    /\ TableIdle
    /\ pending = {}
    /\ \E sm \in SubjectFields, sc \in SubjectFields :
       \E rm \in {"map1", NilMap}, rc \in {"map2", NilMap} :
       \E maps \in [MapRefs -> MapContents] :
            mem = [phase |-> "start", m |-> WithLabels(sm, rm),
                   c |-> WithLabels(sc, rc), maps |-> maps]

\* c.populateSubject(m), m not nil
PopulateSubject ==
    /\ mem.phase = "start"
    /\ mem' = [mem EXCEPT !.phase = "converted",
                          !.c = [@ EXCEPT !.Address = mem.m.Address,
                                          !.Incarnation = mem.m.Incarnation,
                                          !.Status = mem.m.Status,
                                          !.Labels = mem.m.Labels]]
    /\ UNCHANGED <<members, last, pc, fn, args, ret, pending>>

\* m.populateFromChange(c)
PopulateFromChange ==
    /\ mem.phase = "start"
    /\ mem' = [mem EXCEPT !.phase = "converted",
                          !.m = [@ EXCEPT !.Address = mem.c.Address,
                                          !.Incarnation = mem.c.Incarnation,
                                          !.Status = mem.c.Status,
                                          !.Labels = mem.c.Labels]]
    /\ UNCHANGED <<members, last, pc, fn, args, ret, pending>>

\* m.Labels[key] = value after the conversion; a nil map cannot be written
SetMemberLabel(key, value) ==
    /\ mem.phase = "converted"
    /\ mem.m.Labels # NilMap
    /\ mem' = [phase |-> "memberMutated", m |-> mem.m, c |-> mem.c,
               maps |-> [mem.maps EXCEPT ![mem.m.Labels] = setLabel(@, key, value)],
               before |-> LabelsOf(mem.c)]
    /\ UNCHANGED <<members, last, pc, fn, args, ret, pending>>

\* c.Labels[key] = value after the conversion
SetChangeLabel(key, value) ==
    /\ mem.phase = "converted"
    /\ mem.c.Labels # NilMap
    /\ mem' = [phase |-> "changeMutated", m |-> mem.m, c |-> mem.c,
               maps |-> [mem.maps EXCEPT ![mem.c.Labels] = setLabel(@, key, value)],
               before |-> LabelsOf(mem.m)]
    /\ UNCHANGED <<members, last, pc, fn, args, ret, pending>>

NextMemory ==
    \/ PopulateSubject
    \/ PopulateFromChange
    \/ \E value \in {"world", "there"} : SetMemberLabel("hello", value)
    \/ \E value \in {"world", "there"} : SetChangeLabel("hello", value)

SpecMemory == InitMemory /\ [][NextMemory]_vars

\* C18: after populateSubject or populateFromChange the Change has its own
\* copy of the label set: setting a label of the Member does not show through
\* the Change's Labels, nor setting a label of the Change through the
\* Member's.
C18_NoLabelAliasing ==
    /\ mem.phase = "memberMutated" => LabelsOf(mem.c) = mem.before
    /\ mem.phase = "changeMutated" => LabelsOf(mem.m) = mem.before

\* C19: the Address of a stored Member never changes: whatever is delivered,
\* the record of a slot keeps the Address it was created with.
C19_AddressImmutable ==
    /\ DeliveredToExisting => members[last.slot].Address = last.old.Address
    /\ \A a \in Addresses : members[a] # Nil => members[a].Address = a

C19_Witness ==
    /\ DeliveredToExisting
    /\ last.op = "change"
    /\ last.change.Address # last.old.Address
    /\ last.change.Incarnation > last.old.Incarnation
    /\ ~last.accepted
    /\ members[last.slot] = last.old

(***************************************************************************)
(* A finite set of gossips about one address, delivered in any order to a  *)
(* node that has no record of the address                                  *)
(***************************************************************************)

\* most gossips in the set
MaxGossips == 3

\* the address the gossips are about
GossipAddress == "a1"

GossipsAboutOne ==
    {newChange(GossipAddress, s, i) :
        s \in StatusStrings \cup {OtherUnrecognized}, i \in Incarnations}

InitOrder ==
    /\ members = [a \in Addresses |-> Nil]
    /\ last = NoDelivery
    /\ pc = "table" /\ fn = "" /\ ret = FALSE
    /\ mem = NoMemory
    /\ pending \in {G \in SUBSET GossipsAboutOne : Cardinality(G) <= MaxGossips}
    /\ args = [gossips |-> pending]

NextOrder == \E c \in pending : DeliverGossip(c)

SpecOrder == InitOrder /\ [][NextOrder]_vars

\* the record stored after the gossips of seq were delivered in that order to
\* a node holding old
RECURSIVE storedAfter(_, _)
storedAfter(old, seq) ==
    IF seq = <<>> THEN old
    ELSE LET gossip == populateFromChange(ZeroMember, Head(seq))
         IN  storedAfter(IF acceptGossip(old, gossip) THEN gossip ELSE old,
                         Tail(seq))

\* the (Incarnation, Status) of a stored record
View(m) == IF m = Nil THEN <<>> ELSE <<m.Incarnation, m.Status>>

AllDelivered == pending = {} /\ args.gossips # {}

SameInEveryOrder ==
    \A seq \in Orders(args.gossips) :
        View(storedAfter(Nil, seq)) = View(members[GossipAddress])

\* C20 (as stated): for any finite set of gossips about one address, the
\* stored (Incarnation, Status) after all were delivered is the same for
\* every delivery order.
C20_OrderIndependent == AllDelivered => SameInEveryOrder

\* no Tombstone, and no two gossips of one incarnation that carry different
\* unrecognized statuses
NoTombstoneNoUnrecognizedTie ==
    /\ \A g \in args.gossips : g.Status # Tombstone
    /\ \A g, h \in args.gossips :
            (/\ g.Incarnation = h.Incarnation
             /\ g.Status \notin Statuses
             /\ h.Status \notin Statuses) => g.Status = h.Status

\* C20 (amended): the same, for sets that hold no Tombstone and no two gossips
\* of equal incarnation with different unrecognized statuses.
C20_OrderIndependentWithoutTombstone ==
    (AllDelivered /\ NoTombstoneNoUnrecognizedTie) => SameInEveryOrder

C20_Witness ==
    /\ AllDelivered
    /\ NoTombstoneNoUnrecognizedTie
    /\ Cardinality(args.gossips) = 3
    /\ ~last.accepted
    /\ last.change.Incarnation < members[GossipAddress].Incarnation
    /\ statePrecedence(last.change.Status)
            > statePrecedence(members[GossipAddress].Status)

(***************************************************************************)
(* Redelivery.  A finite set of gossips about one address is delivered to   *)
(* a node that starts with no record, each gossip any number of times and   *)
(* in any order; every accepted gossip is stored.                           *)
(***************************************************************************)

\* the most gossips in a redelivered set
MaxReplayed == 2

ReplayedSets == {G \in SUBSET GossipsAboutOne : Cardinality(G) <= MaxReplayed}

\* pending holds the gossips not delivered yet; ret holds the gossips that
\* were accepted, or rejected while a record was stored for their address
InitReplay ==
    /\ members = [a \in Addresses |-> Nil]
    /\ last = NoDelivery
    /\ pc = "table" /\ fn = "replay"
    /\ mem = NoMemory
    /\ pending \in ReplayedSets
    /\ args = [gossips |-> pending]
    /\ ret = {}

\* One delivery of a gossip of the set, a first one or a repeated one: the
\* gossip is judged by acceptGossip against the stored record and stored when
\* accepted.
ReplayGossip(c) ==
    LET old == members[c.Address]
        gossip == populateFromChange(ZeroMember, c)
        accepted == acceptGossip(old, gossip)
    IN  /\ pc = "table" /\ fn = "replay"
        /\ c \in args.gossips
        /\ members' = IF accepted
                        THEN [members EXCEPT ![c.Address] = gossip]
                        ELSE members
        /\ last' = [op |-> IF c \in pending THEN "gossip" ELSE "replay",
                    slot |-> c.Address, change |-> c, old |-> old,
                    accepted |-> accepted, settled |-> c \in ret]
        /\ pending' = pending \ {c}
        /\ ret' = IF accepted \/ old # Nil THEN ret \cup {c} ELSE ret
        /\ UNCHANGED <<pc, fn, args, mem>>

NextReplay == \E c \in GossipsAboutOne : ReplayGossip(c)

SpecReplay == InitReplay /\ [][NextReplay]_vars

\* a gossip of the set was delivered again
Redelivered == last.op = "replay"

LastLeftUnchanged == ~last.accepted /\ members[last.slot] = last.old

\* C21 (as stated): a gossip that was delivered earlier is rejected when it is
\* delivered again and leaves the stored Member unchanged, and
\* acceptGossip(m, m) is false for every Member m.
C21_ReplayRejected ==
    /\ Redelivered => LastLeftUnchanged
    /\ \A m \in Members : ~acceptGossip(m, m)

\* C21 (amended): a gossip that was accepted earlier, or rejected earlier
\* while a record was stored for its address, is rejected when it is delivered
\* again and leaves the stored Member unchanged; acceptGossip(m, m) is false
\* for every Member m.  (A Tombstone rejected only for want of a record is
\* accepted later over a record it outranks.)
C21_SettledReplayRejected ==
    /\ (Redelivered /\ last.settled) => LastLeftUnchanged
    /\ (Redelivered /\ last.accepted) =>
            last.change.Status = Tombstone /\ last.old # Nil
    /\ \A m \in Members : ~acceptGossip(m, m)

C21_Witness ==
    /\ Redelivered /\ last.settled
    /\ last.old = populateFromChange(ZeroMember, last.change)
    /\ LastLeftUnchanged
    /\ pending = {}

\* C22: a Change with Tombstone = false is serialized without a tombstone key,
\* one with Tombstone = true is serialized with tombstone set to true, and
\* tombstone is never serialized as false.
C22_TombstoneOmittedWhenFalse ==
    Returned("Marshal") =>
        /\ ~args.c.Tombstone => "tombstone" \notin DOMAIN ret
        /\ args.c.Tombstone =>
                "tombstone" \in DOMAIN ret /\ ret["tombstone"] = "true"
        /\ "tombstone" \in DOMAIN ret => ret["tombstone"] # "false"

C22_Witness ==
    /\ Returned("Marshal")
    /\ ~args.c.Tombstone
    /\ args.c.Status = Alive
    /\ DOMAIN ret = {"source", "sourceIncarnationNumber", "address",
                     "incarnationNumber", "status", "timestamp"}
    /\ ret["status"] = quote(Alive)

SameSubject == args.c.Address = args.c2.Address

\* C23 (as stated): overrides(a, a) is false, and of two Changes about the
\* same subject whose (Incarnation, Status) pairs differ exactly one overrides
\* the other.
C23_OverridesTotal ==
    (Returned("overrides") /\ SameSubject) =>
        /\ ~overrides(args.c, args.c)
        /\ <<args.c.Incarnation, args.c.Status>>
                # <<args.c2.Incarnation, args.c2.Status>>
            => (ret # overrides(args.c2, args.c))

\* C23 (amended): overrides(a, a) is false, two Changes never override each
\* other, and exactly one overrides the other when their (Incarnation,
\* statePrecedence(Status)) pairs differ; two Changes of one incarnation whose
\* statuses are both unrecognized override in neither direction.
C23_OverridesStrictOnRank ==
    (Returned("overrides") /\ SameSubject) =>
        /\ ~overrides(args.c, args.c)
        /\ ~(ret /\ overrides(args.c2, args.c))
        /\ <<args.c.Incarnation, statePrecedence(args.c.Status)>>
                # <<args.c2.Incarnation, statePrecedence(args.c2.Status)>>
            <=> (ret # overrides(args.c2, args.c))

C23_Witness ==
    /\ Returned("overrides") /\ SameSubject
    /\ args.c.Incarnation = args.c2.Incarnation
    /\ args.c.Status = Unrecognized
    /\ args.c2.Status = OtherUnrecognized
    /\ ret = FALSE /\ ~overrides(args.c2, args.c)

\* the gossip has the stored Member's Incarnation and Status and other Labels
LabelConflict ==
    /\ args.old # Nil
    /\ args.gossip.Incarnation = args.old.Incarnation
    /\ args.gossip.Status = args.old.Status
    /\ args.gossip.Labels # args.old.Labels

\* C24: for a gossip with the stored Member's Incarnation and Status but
\* different Labels, acceptGossip returns false, and the call leaves the
\* stored Member, its Labels included, as it was.
C24_LabelConflictKeepsOld ==
    /\ []((Returned("acceptGossip") /\ LabelConflict) => ret = FALSE)
    /\ [][fn = "acceptGossip" => args' = args]_vars

C24_Witness ==
    /\ Returned("acceptGossip") /\ LabelConflict
    /\ args.old.Address = args.gossip.Address
    /\ args.old.Labels # NoLabels
    /\ args.gossip.Labels = NoLabels
    /\ ret = FALSE

\* C25: for a Change with Tombstone = false or Status = Tombstone,
\* validateIncoming(validateOutgoing(c)) has the Status of c and its Source,
\* SourceIncarnation, Address, Incarnation, Labels and Timestamp.
C25_WireHopPreservesStatus ==
    (/\ Returned("sendAndReceive")
     /\ args.c.Tombstone = FALSE \/ args.c.Status = Tombstone) =>
        /\ ret.Status = args.c.Status
        /\ \A f \in ChangeFieldsButStatus \ {"Tombstone"} : ret[f] = args.c[f]

C25_Witness ==
    /\ Returned("sendAndReceive")
    /\ args.c.Status = Tombstone
    /\ args.c.Tombstone = FALSE
    /\ args.c.Labels # NoLabels
    /\ ret.Status = Tombstone
    /\ ret.Tombstone = TRUE

\* every gossip of the set keeps being delivered
SpecReplayFair ==
    SpecReplay /\ \A c \in GossipsAboutOne : WF_vars(ReplayGossip(c))

\* acceptGossip rejects every gossip of the set
Quiescent ==
    \A c \in args.gossips :
        ~acceptGossip(members[c.Address], populateFromChange(ZeroMember, c))

\* C26: for a finite set of gossips about one address, redelivered arbitrarily
\* often in any order with every accepted gossip stored, the node reaches a
\* state from which acceptGossip rejects every gossip of the set, and from
\* some delivery on no delivery is accepted.
C26_GossipQuiesces ==
    /\ <>[]Quiescent
    /\ <>[][last'.op # "none" => ~last'.accepted]_vars

C26_Witness ==
    /\ Quiescent
    /\ Redelivered
    /\ pending = {}
    /\ Cardinality(args.gossips) = MaxReplayed
    /\ members[GossipAddress] # Nil
    /\ members[GossipAddress].Status # Tombstone

====
